---- MODULE Spec2Model ----
(***************************************************************************)
(* Model of libbattery.c: the sysfs battery selector                       *)
(* GetPowerInfo_Linux_sys_class_power_supply and the Li-Ion fuel estimator *)
(* fuel_level_LiIon.                                                       *)
(*                                                                         *)
(* A directory is a sequence of entries in readdir order.  An entry is a   *)
(* record with its name and one field per attribute file; an attribute is  *)
(* the pair (ok, buf) that read_power_file produces: ok is its return      *)
(* value and buf the text it left in the buffer.  Texts compared with      *)
(* strcmp are strings, texts handed to atoi are sequences of characters.   *)
(***************************************************************************)
EXTENDS Integers, Sequences, FiniteSets, TLC

VARIABLES
    pc,          \* position in GetPowerInfo: "call", "scan", "done", "idle"
    dirExists,   \* whether opendir(base) succeeds
    dir,         \* the entries readdir returns, in order
    pos,         \* number of entries readdir has returned so far
    state,       \* *state
    seconds,     \* *seconds
    percent,     \* *percent
    ret,         \* return value of GetPowerInfo ("none" until it returns)
    fpc,         \* position in fuel_level_LiIon: "call", "done", "idle"
    args,        \* <<mV, mA, mOhm>> passed to fuel_level_LiIon
    level        \* value returned by fuel_level_LiIon

vars == <<pc, dirExists, dir, pos, state, seconds, percent, ret, fpc, args, level>>

selVars == <<pc, dirExists, dir, pos, state, seconds, percent, ret>>

fuelVars == <<fpc, args, level>>

-----------------------------------------------------------------------------
(* Bounds *)

MaxEntries == 2

NodeNames == <<"BAT0", "BAT1", "BAT2", "BAT3", "BAT4">>

-----------------------------------------------------------------------------
(* Attribute files *)

File(text) == [ok |-> TRUE, buf |-> text]

NoText == [ok |-> FALSE, buf |-> ""]

NoNumber == [ok |-> FALSE, buf |-> <<>>]

read_power_file(e, key) == e[key]

(* atoi: skip white space, take an optional sign, then the decimal digits  *)
(* up to the first character that is not a digit.                          *)
Digits == <<"0", "1", "2", "3", "4", "5", "6", "7", "8", "9">>

IsDigit(c) == \E d \in 1..10 : Digits[d] = c

DigitVal(c) == (CHOOSE d \in 1..10 : Digits[d] = c) - 1

IsSpace(c) == c \in {" ", "\n", "\t", "\r"}

RECURSIVE AtoiDigits(_, _)
AtoiDigits(s, acc) ==
    IF s = <<>> \/ ~IsDigit(Head(s))
    THEN acc
    ELSE AtoiDigits(Tail(s), 10 * acc + DigitVal(Head(s)))

RECURSIVE atoi(_)
atoi(s) ==
    IF s = <<>> THEN 0
    ELSE IF IsSpace(Head(s)) THEN atoi(Tail(s))
    ELSE IF Head(s) = "-" THEN 0 - AtoiDigits(Tail(s), 0)
    ELSE IF Head(s) = "+" THEN AtoiDigits(Tail(s), 0)
    ELSE AtoiDigits(s, 0)

-----------------------------------------------------------------------------
(* The body of the readdir loop, per entry *)

(* The entry is left by one of the `continue' statements. *)
SkipEntry_NoScope(e) ==
    \/ e.name = "." \/ e.name = ".."
    \/ ~read_power_file(e, "type").ok
    \/ read_power_file(e, "type").buf # "Battery\n"

SkipEntry(e) ==
    \/ e.name = "." \/ e.name = ".."
    \/ ~read_power_file(e, "type").ok
    \/ read_power_file(e, "type").buf # "Battery\n"
    \/ /\ read_power_file(e, "scope").ok
       /\ read_power_file(e, "scope").buf = "device\n"

EntryState(e) ==
    IF read_power_file(e, "present").ok /\ read_power_file(e, "present").buf = "0\n"
    THEN "POWERSTATE_NO_BATTERY"
    ELSE IF ~read_power_file(e, "status").ok
    THEN "POWERSTATE_UNKNOWN"
    ELSE IF read_power_file(e, "status").buf = "Charging\n"
    THEN "POWERSTATE_CHARGING"
    ELSE IF read_power_file(e, "status").buf = "Discharging\n"
    THEN "POWERSTATE_ON_BATTERY"
    ELSE IF read_power_file(e, "status").buf \in {"Full\n", "Not charging\n"}
    THEN "POWERSTATE_CHARGED"
    ELSE "POWERSTATE_UNKNOWN"

EntryPct(e) ==
    IF ~read_power_file(e, "capacity").ok
    THEN -1
    ELSE LET pct == atoi(read_power_file(e, "capacity").buf)
         IN  IF pct > 100 THEN 100 ELSE pct

EntrySecs_NoNorm(e) ==
    IF ~read_power_file(e, "time_to_empty_now").ok
    THEN -1
    ELSE LET secs == atoi(read_power_file(e, "time_to_empty_now").buf)
         IN  IF secs < 0 THEN -1 ELSE secs

EntrySecs(e) ==
    IF ~read_power_file(e, "time_to_empty_now").ok
    THEN -1
    ELSE LET secs == atoi(read_power_file(e, "time_to_empty_now").buf)
         IN  IF secs <= 0 THEN -1 ELSE secs

(* The value of `choose' for a candidate (secs, pct) against the running   *)
(* best (curSecs, curPct).                                                 *)
Choose_PctOverSecs(secs, pct, curSecs, curPct) ==
    IF secs < 0
    THEN (pct < 0 /\ curPct < 0) \/ pct > curPct
    ELSE secs > curSecs

Choose_LaterWins(secs, pct, curSecs, curPct) ==
    IF secs < 0 /\ curSecs < 0
    THEN (pct < 0 /\ curPct < 0) \/ pct >= curPct
    ELSE secs >= curSecs

Choose(secs, pct, curSecs, curPct) ==
    IF secs < 0 /\ curSecs < 0
    THEN (pct < 0 /\ curPct < 0) \/ pct > curPct
    ELSE secs > curSecs

(* The (state, seconds, percent) computed for one entry. *)
EntryTriple(e) == <<EntryState(e), EntrySecs(e), EntryPct(e)>>

(* The running best after one pass of the loop body over entry e. *)
LoopBody_KeepsState(best, e) ==
    IF SkipEntry(e)
    THEN best
    ELSE IF Choose(EntrySecs(e), EntryPct(e), best[2], best[3])
    THEN <<best[1], EntrySecs(e), EntryPct(e)>>
    ELSE best

LoopBody(best, e) ==
    IF SkipEntry(e)
    THEN best
    ELSE IF Choose(EntrySecs(e), EntryPct(e), best[2], best[3])
    THEN EntryTriple(e)
    ELSE best

Default == <<"POWERSTATE_NO_BATTERY", -1, -1>>

(* The whole scan of a listing that opened, as a function of the listing:  *)
(* the triple GetPowerInfo returns for it.                                 *)
RECURSIVE ScanFrom(_, _)
ScanFrom(best, entries) ==
    IF entries = <<>>
    THEN best
    ELSE ScanFrom(LoopBody(best, Head(entries)), Tail(entries))

GetPowerInfo(entries) == ScanFrom(Default, entries)

-----------------------------------------------------------------------------
(* fuel_level_LiIon *)

(* C integer division truncates toward zero. *)
CDiv(a, b) == IF a >= 0 THEN a \div b ELSE 0 - ((0 - a) \div b)

max(a, b) == IF a > b THEN a ELSE b

min(a, b) == IF a < b THEN a ELSE b

RECURSIVE SqrtLoop(_, _, _)
SqrtLoop(x, y, m) ==
    IF m = 0
    THEN y
    ELSE LET b == y + m
         IN  IF x >= b
             THEN SqrtLoop(x - b, (y \div 2) + m, m \div 4)
             ELSE SqrtLoop(x, y \div 2, m \div 4)

int_sqrt(x) == IF x <= 1 THEN x ELSE SqrtLoop(x, 0, 2^30)

fuel_level_LiIon(mV, mA, mOhm) ==
    LET v == mV + CDiv(mOhm * mA, 1000)
        u == 3870000 - (14523 * (37835 - 10 * v))
    IN  IF u < 0
        THEN max(CDiv((v - 3300) * ((3756 - 3300) * 1966), 100000), 0)
        ELSE min(CDiv(1966 + int_sqrt(u), 100), 100)

-----------------------------------------------------------------------------
(* The directories and arguments the program is run on *)

Line(chars) == chars \o <<"\n">>

Node(type, scope, present, status, capacity, tte) ==
    [name |-> "BAT", type |-> type, scope |-> scope, present |-> present,
     status |-> status, capacity |-> capacity, time_to_empty_now |-> tte]

DotNodes ==
    {[name |-> n, type |-> NoText, scope |-> NoText, present |-> NoText,
      status |-> NoText, capacity |-> NoNumber, time_to_empty_now |-> NoNumber]
       : n \in {".", ".."}}

Capacities ==
    {NoNumber, File(Line(<<"4", "0">>)), File(Line(<<"7", "0">>)),
     File(Line(<<"1", "5", "0">>)), File(Line(<<"-", "5">>)),
     File(Line(<<"a", "b", "c">>))}

Times ==
    {NoNumber, File(Line(<<"0">>)), File(Line(<<"-", "3">>)),
     File(Line(<<"1", "0", "0">>)), File(Line(<<"2", "0", "0">>))}

(* System batteries with every capacity and time reading, an AC adapter   *)
(* and a controller battery.                                              *)
SelectionNodes ==
    {Node(File("Battery\n"), NoText, NoText, File(s), c, t) :
        s \in {"Charging\n", "Discharging\n"}, c \in Capacities, t \in Times}
    \cup {Node(File("Mains\n"), NoText, NoText, NoText, NoNumber, NoNumber),
          Node(File("Battery\n"), File("device\n"), NoText, File("Discharging\n"),
               File(Line(<<"8", "0">>)), NoNumber)}
    \cup DotNodes

(* Every type and scope, with the present and status readings the         *)
(* selection nodes leave out.                                             *)
FilterNodes ==
    {Node(ty, sc, ps[1], ps[2], c, NoNumber) :
        ty \in {NoText, File("Battery\n"), File("Mains\n")},
        sc \in {NoText, File("device\n"), File("System\n")},
        ps \in {<<File("0\n"), File("Discharging\n")>>, <<NoText, NoText>>,
                <<NoText, File("Full\n")>>, <<File("1\n"), File("Not charging\n")>>},
        c \in {File(Line(<<"5", "0">>)), File(Line(<<"8", "0">>))}}
    \cup DotNodes

IsDot(e) == e.name \in {".", ".."}

(* A directory holds no name twice: "." and ".." are listed at most once   *)
(* each, and any other node is named after its place in the listing.       *)
IsListing(f) ==
    \A i, j \in DOMAIN f : (i # j /\ IsDot(f[i])) => f[i].name # f[j].name

Named(f) ==
    [i \in DOMAIN f |-> IF IsDot(f[i]) THEN f[i]
                        ELSE [f[i] EXCEPT !.name = NodeNames[i]]]

(* What the caller's variables hold before the call. *)
CallerValues ==
    {<<"POWERSTATE_UNKNOWN", 0, 0>>, <<"POWERSTATE_CHARGED", 42, 99>>}

MilliVolts == {3000, 3300, 3301, 3311, 3312, 3500, 3756, 3757, 4000, 4200, 4500}

MilliAmps == {-500, 0, 1, 500}

MilliOhms == {0, 100, 250}

-----------------------------------------------------------------------------
(* GetPowerInfo_Linux_sys_class_power_supply, step by step *)

FuelIdle == fpc = "idle" /\ args = <<0, 0, 0>> /\ level = 0

InitSel(nodes) ==
    /\ pc = "call"
    /\ dirExists \in BOOLEAN
    /\ IF dirExists
       THEN \E n \in 0..MaxEntries : \E f \in [1..n -> nodes] :
                IsListing(f) /\ dir = Named(f)
       ELSE dir = <<>>
    /\ pos = 0
    /\ \E c \in CallerValues : state = c[1] /\ seconds = c[2] /\ percent = c[3]
    /\ ret = "none"
    /\ FuelIdle

Init == InitSel(SelectionNodes)

InitFilter == InitSel(FilterNodes)

(* opendir fails: return false. *)
OpendirFail_WritesDefault ==
    /\ pc = "call"
    /\ ~dirExists
    /\ state' = Default[1] /\ seconds' = Default[2] /\ percent' = Default[3]
    /\ ret' = FALSE
    /\ pc' = "done"
    /\ UNCHANGED <<dirExists, dir, pos, fuelVars>>

OpendirFail ==
    /\ pc = "call"
    /\ ~dirExists
    /\ ret' = FALSE
    /\ pc' = "done"
    /\ UNCHANGED <<dirExists, dir, pos, state, seconds, percent, fuelVars>>

(* opendir succeeds: the outputs take their defaults. *)
OpendirOk ==
    /\ pc = "call"
    /\ dirExists
    /\ state' = Default[1] /\ seconds' = Default[2] /\ percent' = Default[3]
    /\ pc' = "scan"
    /\ UNCHANGED <<dirExists, dir, pos, ret, fuelVars>>

(* readdir returns the next entry and the loop body runs on it. *)
ReaddirEntry ==
    /\ pc = "scan"
    /\ pos < Len(dir)
    /\ pos' = pos + 1
    /\ LET best == LoopBody(<<state, seconds, percent>>, dir[pos + 1])
       IN  state' = best[1] /\ seconds' = best[2] /\ percent' = best[3]
    /\ UNCHANGED <<pc, dirExists, dir, ret, fuelVars>>

(* readdir returns NULL: closedir, return true. *)
ReaddirEnd ==
    /\ pc = "scan"
    /\ pos = Len(dir)
    /\ ret' = TRUE
    /\ pc' = "done"
    /\ UNCHANGED <<dirExists, dir, pos, state, seconds, percent, fuelVars>>

Next == OpendirFail \/ OpendirOk \/ ReaddirEntry \/ ReaddirEnd

Spec == Init /\ [][Next]_vars

SpecFilter == InitFilter /\ [][Next]_vars

-----------------------------------------------------------------------------
(* fuel_level_LiIon, called on bounded arguments *)

InitFuel ==
    /\ fpc = "call"
    /\ args \in MilliVolts \X MilliAmps \X MilliOhms
    /\ level = 0
    /\ pc = "idle" /\ dirExists = FALSE /\ dir = <<>> /\ pos = 0
    /\ state = "POWERSTATE_UNKNOWN" /\ seconds = 0 /\ percent = 0
    /\ ret = "none"

FuelCall ==
    /\ fpc = "call"
    /\ level' = fuel_level_LiIon(args[1], args[2], args[3])
    /\ fpc' = "done"
    /\ UNCHANGED <<args, selVars>>

NextFuel == FuelCall

SpecFuel == InitFuel /\ [][NextFuel]_vars

-----------------------------------------------------------------------------
(* Vocabulary of the properties *)

Best == <<state, seconds, percent>>

(* The scan has begun: the outputs hold the running best. *)
Scanning == pc \in {"scan", "done"} /\ dirExists

Returned == pc = "done" /\ ret = TRUE

(* An entry the selection is to ignore: its type is unreadable or is not   *)
(* "Battery", or its scope is "device".                                    *)
Excluded(e) ==
    \/ ~e.type.ok
    \/ e.type.buf # "Battery\n"
    \/ e.scope.ok /\ e.scope.buf = "device\n"

Qualifies(e) == ~IsDot(e) /\ ~Excluded(e)

Qualifying == {i \in 1..Len(dir) : Qualifies(dir[i])}

VisitedQualifying == {i \in 1..pos : Qualifies(dir[i])}

RemoveAt(s, i) == SubSeq(s, 1, i - 1) \o SubSeq(s, i + 1, Len(s))

(* The text is an integer: optional white space, an optional sign, at      *)
(* least one digit, and nothing after the digits but the newline.          *)
RECURSIVE AllDigits(_)
AllDigits(s) == s = <<>> \/ (IsDigit(Head(s)) /\ AllDigits(Tail(s)))

RECURSIVE IsIntegerText(_)
IsIntegerText(s) ==
    IF s = <<>> THEN FALSE
    ELSE IF IsSpace(Head(s)) THEN IsIntegerText(Tail(s))
    ELSE LET unsigned == IF Head(s) \in {"+", "-"} THEN Tail(s) ELSE s
             body == IF unsigned # <<>> /\ unsigned[Len(unsigned)] = "\n"
                     THEN SubSeq(unsigned, 1, Len(unsigned) - 1)
                     ELSE unsigned
         IN  body # <<>> /\ AllDigits(body)

-----------------------------------------------------------------------------
(* C1: an entry whose type is unreadable or not "Battery", or whose scope  *)
(* is "device", is excluded: the returned (state, seconds, percent) equals *)
(* the result for the listing with that entry removed, in every order and  *)
(* whatever its other attributes.                                          *)
C1_ExcludedEntryIgnored ==
    Returned =>
        \A i \in 1..Len(dir) :
            Excluded(dir[i]) => Best = GetPowerInfo(RemoveAt(dir, i))

(* A controller battery at 80% listed before a system battery at 50%.     *)
C1_Witness ==
    /\ Returned
    /\ Len(dir) = 2
    /\ dir[1].type = File("Battery\n") /\ dir[1].scope = File("device\n")
    /\ EntryPct(dir[1]) = 80
    /\ Qualifies(dir[2]) /\ EntryPct(dir[2]) = 50
    /\ percent = 50

(* C2: if some qualifying entry has known (positive) seconds, the returned *)
(* seconds is the maximum known seconds among the qualifying entries and   *)
(* the returned state and percent come from an entry with that seconds.    *)
C2_KnownSecondsDominate ==
    (Returned /\ \E i \in Qualifying : EntrySecs(dir[i]) > 0) =>
        /\ \A i \in Qualifying : EntrySecs(dir[i]) <= seconds
        /\ \E i \in Qualifying :
              EntrySecs(dir[i]) = seconds /\ EntryTriple(dir[i]) = Best

(* Seconds 100 at 40% listed before absent seconds at 70%.                 *)
C2_Witness ==
    /\ Returned
    /\ Len(dir) = 2 /\ Qualifying = {1, 2}
    /\ EntrySecs(dir[1]) = 100 /\ EntryPct(dir[1]) = 40
    /\ EntrySecs(dir[2]) = -1 /\ EntryPct(dir[2]) = 70
    /\ Best = EntryTriple(dir[1])

(* C3: when every qualifying entry has absent seconds, the entry selected  *)
(* after the full scan is one with the highest percent among the           *)
(* qualifying entries, an absent percent (-1) ranking below any known one. *)
C3_HighestPercentSelected ==
    (Returned /\ Qualifying # {} /\ \A i \in Qualifying : EntrySecs(dir[i]) = -1) =>
        /\ \A i \in Qualifying : EntryPct(dir[i]) <= percent
        /\ \E i \in Qualifying : EntryTriple(dir[i]) = Best

(* C4: the percent of the returned snapshot is absent (-1) or an integer   *)
(* in [0,100], for every content of the capacity attributes.               *)
C4_PercentInRange ==
    Returned => (percent = -1 \/ percent \in 0..100)

(* C5: after every step of the scan and at return, seconds is absent (-1)  *)
(* or strictly positive; a zero or negative reading is absent.             *)
C5_SecondsAbsentOrPositive ==
    Scanning => (seconds = -1 \/ seconds > 0)

(* A battery reading 0 seconds at 70% wins by percent over one at 40%.     *)
C5_Witness ==
    /\ Returned
    /\ Len(dir) = 2 /\ Qualifying = {1, 2}
    /\ dir[2].time_to_empty_now = File(Line(<<"0">>)) /\ EntryPct(dir[2]) = 70
    /\ ~dir[1].time_to_empty_now.ok /\ EntryPct(dir[1]) = 40
    /\ seconds = -1 /\ percent = 70

(* C6: when the listing cannot be opened the call returns false without    *)
(* reading an entry and leaves the caller's state, seconds and percent     *)
(* unchanged; every call whose listing opens returns true after the scan.  *)
C6_OpenFailureWritesNothing ==
    [][/\ (pc = "call" /\ ~dirExists) =>
              (ret' = FALSE /\ pc' = "done" /\ pos' = 0 /\ Best' = Best)
       /\ (pc' = "done" /\ dirExists) => (ret' = TRUE /\ pos' = Len(dir))]_vars

C6_Witness ==
    /\ pc = "done" /\ ~dirExists
    /\ ret = FALSE /\ pos = 0
    /\ Best = <<"POWERSTATE_CHARGED", 42, 99>>

(* C7: after every step of the scan and at return, the triple is the       *)
(* default when no qualifying entry has been visited, and otherwise        *)
(* exactly the triple of one qualifying entry already visited; every call  *)
(* whose listing opened returns success.                                   *)
C7_BestIsOneEntry ==
    /\ Scanning =>
          IF VisitedQualifying = {}
          THEN Best = Default
          ELSE \E i \in VisitedQualifying : Best = EntryTriple(dir[i])
    /\ (pc = "done" /\ dirExists) => ret = TRUE

(* Two batteries differing in every field; the second is selected.         *)
C7_Witness ==
    /\ Returned
    /\ Len(dir) = 2 /\ Qualifying = {1, 2}
    /\ EntryTriple(dir[1]) = <<"POWERSTATE_CHARGING", 100, 40>>
    /\ EntryTriple(dir[2]) = <<"POWERSTATE_ON_BATTERY", 200, 70>>
    /\ Best = EntryTriple(dir[2])

(* C8: fuel_level_LiIon returns an integer in [0,100] for any input        *)
(* triple, on the linear branch and on the square-root branch.             *)
C8_FuelLevelInRange ==
    fpc = "done" => level \in 0..100

(* C9, as stated: a qualifying entry that ties exactly with the running    *)
(* best on seconds and percent never replaces it, absent values included.  *)
C9_FirstWinsOnEveryTie ==
    [][(/\ pc = "scan" /\ pos < Len(dir)
        /\ VisitedQualifying # {}
        /\ Qualifies(dir[pos + 1])
        /\ EntrySecs(dir[pos + 1]) = seconds
        /\ EntryPct(dir[pos + 1]) = percent) => Best' = Best]_vars

(* C9, amended: a qualifying entry that ties exactly with the running best *)
(* does not replace it when the tied seconds is known or the tied percent  *)
(* is not negative; when the seconds are absent and the tied percent is    *)
(* negative, the later entry replaces the earlier one.                     *)
C9_FirstWinsOnKnownTie ==
    [][(/\ pc = "scan" /\ pos < Len(dir)
        /\ VisitedQualifying # {}
        /\ Qualifies(dir[pos + 1])
        /\ EntrySecs(dir[pos + 1]) = seconds
        /\ EntryPct(dir[pos + 1]) = percent) =>
            IF seconds < 0 /\ percent < 0
            THEN Best' = EntryTriple(dir[pos + 1])
            ELSE Best' = Best]_vars

(* Two batteries tied at 70% with absent seconds; the first one stays.     *)
C9_Witness ==
    /\ Returned
    /\ Len(dir) = 2 /\ Qualifying = {1, 2}
    /\ EntrySecs(dir[1]) = -1 /\ EntrySecs(dir[2]) = -1
    /\ EntryPct(dir[1]) = 70 /\ EntryPct(dir[2]) = 70
    /\ EntryState(dir[1]) = "POWERSTATE_CHARGING"
    /\ EntryState(dir[2]) = "POWERSTATE_ON_BATTERY"
    /\ state = "POWERSTATE_CHARGING"

(* C10: a qualifying entry whose capacity is missing or is not the text of *)
(* an integer has an absent percent (-1); seen on the running best while   *)
(* it is the only qualifying entry visited.                                *)
C10_BadCapacityIsAbsent ==
    Scanning =>
        \A i \in VisitedQualifying :
            (/\ VisitedQualifying = {i}
             /\ \/ ~dir[i].capacity.ok
                \/ ~IsIntegerText(dir[i].capacity.buf)) => percent = -1

====
